---- MODULE Spec2Model ----
(***************************************************************************)
(* Query orchestration pipeline of the Sierra Leonean Context AI:          *)
(* keyword classification (main.py), retrieval and generation through the  *)
(* RAG chain (main.py), and the streaming encoder and HTTP surface         *)
(* (api.py).                                                                *)
(*                                                                         *)
(* Text (questions, answers, page contents, source paths) is a sequence of *)
(* one-character strings, so that lower(), split(), join(), slicing and    *)
(* substring tests are computed character by character as Python does.     *)
(* Category names, event types and program counters are plain strings.     *)
(***************************************************************************)
EXTENDS Integers, Sequences, FiniteSets, TLC

\* ------------------------------------------------------------------ text

Whitespace == {" ", "\n", "\t"}

LowerMap ==
    [A |-> "a", B |-> "b", C |-> "c", D |-> "d", E |-> "e", F |-> "f", G |-> "g",
     H |-> "h", I |-> "i", J |-> "j", K |-> "k", L |-> "l", M |-> "m", N |-> "n",
     O |-> "o", P |-> "p", Q |-> "q", R |-> "r", S |-> "s", T |-> "t", U |-> "u",
     V |-> "v", W |-> "w", X |-> "x", Y |-> "y", Z |-> "z"]

\* str.lower()
Lower(s) == [i \in 1..Len(s) |-> IF s[i] \in DOMAIN LowerMap THEN LowerMap[s[i]] ELSE s[i]]

\* `pat in s` for strings: pat occurs as a contiguous substring of s
Contains(pat, s) ==
    \E i \in 0..(Len(s) - Len(pat)) : SubSeq(s, i + 1, i + Len(pat)) = pat

\* bool(s.strip()) is False: s is empty or holds whitespace only
IsBlank(s) == \A i \in 1..Len(s) : s[i] \in Whitespace

\* str.strip()
Strip(s) ==
    IF IsBlank(s) THEN <<>>
    ELSE LET first == CHOOSE i \in 1..Len(s) :
                          s[i] \notin Whitespace /\ \A j \in 1..(i - 1) : s[j] \in Whitespace
             last == CHOOSE i \in 1..Len(s) :
                         s[i] \notin Whitespace /\ \A j \in (i + 1)..Len(s) : s[j] \in Whitespace
         IN  SubSeq(s, first, last)

RECURSIVE SplitFrom(_, _, _, _)
SplitFrom(s, i, cur, acc) ==
    IF i > Len(s)
    THEN IF cur = <<>> THEN acc ELSE Append(acc, cur)
    ELSE IF s[i] \in Whitespace
         THEN SplitFrom(s, i + 1, <<>>, IF cur = <<>> THEN acc ELSE Append(acc, cur))
         ELSE SplitFrom(s, i + 1, Append(cur, s[i]), acc)

\* str.split() with no argument: the maximal runs of non-whitespace, in order
Split(s) == SplitFrom(s, 1, <<>>, <<>>)

RECURSIVE Join(_, _)
\* sep.join(words)
Join(sep, words) ==
    IF words = <<>> THEN <<>>
    ELSE IF Len(words) = 1 THEN words[1]
    ELSE words[1] \o sep \o Join(sep, Tail(words))

\* seq[a:b] for 0 <= a, 0 <= b (Python clamps both ends to the length)
Slice(seq, a, b) ==
    LET lo == IF a > Len(seq) THEN Len(seq) ELSE a
        hi == IF b > Len(seq) THEN Len(seq) ELSE b
    IN  IF hi <= lo THEN <<>> ELSE SubSeq(seq, lo + 1, hi)

\* s.split(sep)[-1]: what follows the last occurrence of sep (s itself if none)
AfterLast(sep, s) ==
    LET hits == {i \in 0..(Len(s) - Len(sep)) : SubSeq(s, i + 1, i + Len(sep)) = sep}
    IN  IF hits = {} THEN s
        ELSE LET last == CHOOSE i \in hits : \A j \in hits : j <= i
             IN  SubSeq(s, last + Len(sep) + 1, Len(s))

RECURSIVE RemoveAllFrom(_, _, _)
RemoveAllFrom(pat, s, i) ==
    IF i > Len(s) THEN <<>>
    ELSE IF i + Len(pat) - 1 <= Len(s) /\ SubSeq(s, i, i + Len(pat) - 1) = pat
         THEN RemoveAllFrom(pat, s, i + Len(pat))
         ELSE <<s[i]>> \o RemoveAllFrom(pat, s, i + 1)

\* s.replace(pat, '') for a non-empty pat
RemoveAll(pat, s) == RemoveAllFrom(pat, s, 1)

RECURSIVE Concat(_)
\* the sequences of a sequence joined end to end
Concat(texts) == IF texts = <<>> THEN <<>> ELSE texts[1] \o Concat(Tail(texts))

\* ------------------------------------------------------- classification

\* self.categories
CATEGORIES == <<"history", "culture", "politics", "economy", "general">>

Categories == {CATEGORIES[i] : i \in 1..Len(CATEGORIES)}

\* the keys of the keywords dict of classify_question, in insertion order
KeywordOrder == <<"history", "culture", "politics", "economy">>

Keywords_history ==
    << <<"w","a","r">>,
       <<"c","i","v","i","l"," ","w","a","r">>,
       <<"i","n","d","e","p","e","n","d","e","n","c","e">>,
       <<"c","o","l","o","n","i","a","l">>,
       <<"p","a","s","t">>,
       <<"h","i","s","t","o","r","y">>,
       <<"b","r","i","t","i","s","h">>,
       <<"r","e","v","o","l","u","t","i","o","n">>,
       <<"r","u","f">>,
       <<"s","p","e","c","i","a","l"," ","c","o","u","r","t">> >>

Keywords_culture ==
    << <<"t","r","a","d","i","t","i","o","n">>,
       <<"c","u","s","t","o","m">>,
       <<"l","a","n","g","u","a","g","e">>,
       <<"k","r","i","o">>,
       <<"e","t","h","n","i","c">>,
       <<"t","r","i","b","e">>,
       <<"m","e","n","d","e">>,
       <<"t","e","m","n","e">>,
       <<"l","i","m","b","a">>,
       <<"m","u","s","i","c">>,
       <<"f","o","o","d">>,
       <<"r","e","l","i","g","i","o","n">>,
       <<"f","e","s","t","i","v","a","l">> >>

Keywords_politics ==
    << <<"g","o","v","e","r","n","m","e","n","t">>,
       <<"p","r","e","s","i","d","e","n","t">>,
       <<"e","l","e","c","t","i","o","n">>,
       <<"p","a","r","l","i","a","m","e","n","t">>,
       <<"p","a","r","t","y">>,
       <<"a","p","c">>,
       <<"s","l","p","p">>,
       <<"c","h","i","e","f">>,
       <<"v","o","t","e">>,
       <<"d","e","m","o","c","r","a","c","y">>,
       <<"p","o","l","i","t","i","c","a","l">> >>

Keywords_economy ==
    << <<"b","u","s","i","n","e","s","s">>,
       <<"t","r","a","d","e">>,
       <<"e","c","o","n","o","m","y">>,
       <<"j","o","b","s">>,
       <<"m","a","r","k","e","t">>,
       <<"m","i","n","i","n","g">>,
       <<"d","i","a","m","o","n","d">>,
       <<"a","g","r","i","c","u","l","t","u","r","e">>,
       <<"f","i","s","h","i","n","g">>,
       <<"m","o","n","e","y">>,
       <<"l","e","o","n","e">>,
       <<"b","a","n","k">> >>

\* keywords = {...}
keywords ==
    [history  |-> Keywords_history,
     culture  |-> Keywords_culture,
     politics |-> Keywords_politics,
     economy  |-> Keywords_economy]

\* score = sum(1 for kw in kws if kw in question_lower)
Score(category, question_lower) ==
    LET kws == keywords[category]
    IN  Cardinality({i \in 1..Len(kws) : Contains(kws[i], question_lower)})

\* scores = {category: score, ...}
Scores(question) ==
    LET question_lower == Lower(question)
    IN  [c \in DOMAIN keywords |-> Score(c, question_lower)]

RECURSIVE MaxKeyFrom(_, _, _, _)
\* max(scores, key=scores.get) scans the keys in insertion order and replaces
\* its candidate only by a key whose value is strictly greater
MaxKeyFrom(order, scores, i, best) ==
    IF i > Len(order) THEN best
    ELSE MaxKeyFrom(order, scores, i + 1,
                    IF scores[order[i]] > scores[best] THEN order[i] ELSE best)

\* the same scan keeping the last of several maximal keys
MaxKey_LastWins(order, scores) ==
    LET RECURSIVE Scan(_, _)
        Scan(i, best) ==
            IF i > Len(order) THEN best
            ELSE Scan(i + 1, IF scores[order[i]] >= scores[best] THEN order[i] ELSE best)
    IN  Scan(2, order[1])

MaxKey(order, scores) == MaxKeyFrom(order, scores, 2, order[1])

\* the classification without the zero-score test: the best key as it is
classify_question_NoGeneral(question) ==
    MaxKey(KeywordOrder, Scores(question))

\* SierraLeoneAI.classify_question
classify_question(question) ==
    LET scores == Scores(question)
        best_category == MaxKey(KeywordOrder, scores)
    IN  IF scores[best_category] = 0 THEN "general" ELSE best_category

\* ------------------------------------------------- index stores, passages

\* search_kwargs={"k": 3}
RetrieverK == 3

\* doc.page_content[:300]
PreviewLen == 300

\* "..."
TruncationMarker == <<".", ".", ".">>

\* chunk_size = 3
chunk_size == 3

Fill(n) == [i \in 1..n |-> "x"]

\* The page contents on disk, by passage.  The general contents straddle the
\* preview length.  A Document's page_content is an immutable str: a passage
\* carries the key of its content and page_content(doc) reads it.
PageContents ==
    [h1 |-> Fill(8), h2 |-> Fill(1), h3 |-> Fill(5),
     c1 |-> Fill(12),
     e1 |-> Fill(2), e2 |-> Fill(9), e3 |-> Fill(0), e4 |-> Fill(7),
     g1 |-> Fill(PreviewLen + 1), g2 |-> Fill(PreviewLen)]

page_content(doc) == PageContents[doc.id]

\* a LangChain Document as data_loading.py builds it: TextLoader sets
\* metadata['source'], load_documents_from_category sets metadata['category']
Document(id, source, category) ==
    [id       |-> id,
     metadata |-> [source |-> source, category |-> category]]

Src_war     == <<"d","a","t","a","/","h","/","a",".","t","x","t">>
Src_ruf     == <<"d","a","t","a","/","h","/","b",".","t","x","t">>
Src_court   == <<"h","/","c",".","t","x","t">>
Src_krio    == <<"d","a","t","a","/","c","/","a",".","t","x","t">>
Src_mining  == <<"d","a","t","a","/","e","/","a",".","t","x","t">>
Src_fishing == <<"/","x","/","d","a","t","a","/","e","/","b",".","t","x","t">>
Src_bank    == <<"d","a","t","a","/","e","/","c",".","t","x","t">>
Src_trade   == <<"d","a","t","a","/","e","/","d">>
Src_geo     == <<"d","a","t","a","/","g","/","a",".","t","x","t">>
Src_health  == <<"d","a","t","a","/","g","/","b",".","t","x","t",".","t","x","t">>

\* The passages of each on-disk index, in the order the similarity ranking
\* yields them.  The politics index holds no vector, the economy index more
\* than k.
StoreDocs ==
    [history  |-> << Document("h1", Src_war, "history"),
                     Document("h2", Src_ruf, "history"),
                     Document("h3", Src_court, "history") >>,
     culture  |-> << Document("c1", Src_krio, "culture") >>,
     politics |-> << >>,
     economy  |-> << Document("e1", Src_mining, "economy"),
                     Document("e2", Src_fishing, "economy"),
                     Document("e3", Src_bank, "economy"),
                     Document("e4", Src_trade, "economy") >>,
     general  |-> << Document("g1", Src_geo, "general"),
                     Document("g2", Src_health, "general") >>]

\* vectorstore.similarity_search(question, k): the k nearest passages
similarity_search(store, question, k) == Slice(store, 0, k)

\* dict.get(key, default)
Get(d, key, default) == IF key \in DOMAIN d THEN d[key] ELSE default

\* the entry with retrieved_from defaulting to 'Unknown', not to the category
format_source_document_Untagged(doc) ==
    [content |-> IF Len(page_content(doc)) > PreviewLen
                 THEN Slice(page_content(doc), 0, PreviewLen) \o TruncationMarker
                 ELSE page_content(doc),
     source |-> RemoveAll(<<".","t","x","t">>,
                    AfterLast(<<"d","a","t","a","/">>,
                              Get(doc.metadata, "source", <<"U","n","k","n","o","w","n">>))),
     category |-> Get(doc.metadata, "category", "Unknown"),
     retrieved_from |-> Get(doc.metadata, "retrieved_from", "Unknown")]

\* format_source_document
format_source_document(doc) ==
    LET metadata == doc.metadata
        source0 == Get(metadata, "source", <<"U","n","k","n","o","w","n">>)
        category == Get(metadata, "category", "Unknown")
        retrieved_from == Get(metadata, "retrieved_from", category)
        source1 == IF Contains(<<"d","a","t","a","/">>, source0)
                   THEN AfterLast(<<"d","a","t","a","/">>, source0) ELSE source0
        source == RemoveAll(<<".","t","x","t">>, source1)
    IN  [content |-> IF Len(page_content(doc)) > PreviewLen
                     THEN Slice(page_content(doc), 0, PreviewLen) \o TruncationMarker
                     ELSE page_content(doc),
         source |-> source,
         category |-> category,
         retrieved_from |-> retrieved_from]

\* ------------------------------------------------------------ ai.query

\* the retriever choice falling back to whichever store is loaded
create_rag_chain_AnyStore(primary_category, vs) ==
    IF primary_category \in DOMAIN vs
    THEN [raised |-> FALSE, retriever |-> primary_category]
    ELSE [raised |-> FALSE, retriever |-> CHOOSE c \in DOMAIN vs : TRUE]

\* the retriever choice without the fallback branch
create_rag_chain_NoFallback(primary_category, vs) ==
    [raised |-> primary_category \notin DOMAIN vs, retriever |-> primary_category]

\* create_rag_chain, the choice of the retriever: the category's own store,
\* else self.vectorstores['general'], a KeyError when that is missing too
create_rag_chain(primary_category, vs) ==
    IF primary_category \in DOMAIN vs
    THEN [raised |-> FALSE, retriever |-> primary_category]
    ELSE IF "general" \in DOMAIN vs
         THEN [raised |-> FALSE, retriever |-> "general"]
         ELSE [raised |-> TRUE, retriever |-> "general"]

\* str(KeyError('general'))
KeyErrorGeneral == "'general'"

\* what the external services do during one chain call: the embedding and
\* similarity query and the generation call each return or raise, and the
\* generation service returns some answer text
Environments(answers) ==
    {[retrieval |-> "ok", generation |-> "ok", answer |-> a] : a \in answers}
    \cup {[retrieval |-> "raise", generation |-> "ok", answer |-> <<>>],
          [retrieval |-> "ok", generation |-> "raise", answer |-> <<>>]}

NoResult == [result |-> <<>>, source_documents |-> <<>>]

\* a stage of the pipeline as run: its outcome, and the value that decides
\* what comes next (the category a classification returned, the primary
\* category a chain was built for, the index a retrieval was issued against)
CallOf(op, outcome, value) == [op |-> op, outcome |-> outcome, value |-> value]

Call(op, outcome) == CallOf(op, outcome, "-")

\* SierraLeoneAI.query after its classification: build the chain for
\* `category`, run it (RetrievalQA first retrieves, then calls the llm once
\* with the stuffed prompt).  The value tells whether the call raised, with
\* which message, the result dict, and the stages it went through, in order.
QueryWith(category, question, vs, env) ==
    LET chain == create_rag_chain(category, vs)
        c1 == <<CallOf("classify", "returned", category)>>
        built == CallOf("create_rag_chain", "returned", category)
        docs == similarity_search(vs[chain.retriever], question, RetrieverK)
    IN  IF chain.raised
        THEN [raised |-> TRUE, message |-> KeyErrorGeneral, result |-> NoResult,
              category |-> category,
              calls |-> c1 \o <<CallOf("create_rag_chain", "raised", category)>>]
        ELSE IF env.retrieval = "raise"
        THEN [raised |-> TRUE, message |-> "retrieval failed", result |-> NoResult,
              category |-> category,
              calls |-> c1 \o <<built, CallOf("retrieve", "raised", chain.retriever)>>]
        ELSE IF env.generation = "raise"
        THEN [raised |-> TRUE, message |-> "generation failed", result |-> NoResult,
              category |-> category,
              calls |-> c1 \o <<built, CallOf("retrieve", "returned", chain.retriever),
                                Call("generate", "raised")>>]
        ELSE [raised |-> FALSE, message |-> "",
              result |-> [result |-> env.answer, source_documents |-> docs],
              category |-> category,
              calls |-> c1 \o <<built, CallOf("retrieve", "returned", chain.retriever),
                                Call("generate", "returned")>>]

\* the query calling the generation service a second time after it raised
query_RetriesGeneration(question, vs, env) ==
    LET q == QueryWith(classify_question(question), question, vs, env)
    IN  IF q.raised /\ q.calls[Len(q.calls)].op = "generate"
        THEN [q EXCEPT !.calls = @ \o <<Call("generate", "raised")>>]
        ELSE q

\* the query classifying the question as typed, without lowercasing it
query_ClassifiesRaw(question, vs, env) ==
    LET scores == [c \in DOMAIN keywords |-> Score(c, question)]
        best_category == MaxKey(KeywordOrder, scores)
    IN  QueryWith(IF scores[best_category] = 0 THEN "general" ELSE best_category,
                  question, vs, env)

\* SierraLeoneAI.query: classify the question, then build and run the chain
query(question, vs, env) ==
    QueryWith(classify_question(question), question, vs, env)

\* --------------------------------------------------------- request model

\* QueryRequest.max_sources: Optional[int], an integer or None
IntValue(n) == [none |-> FALSE, n |-> n]

NoneValue == [none |-> TRUE, n |-> 0]

\* QueryRequest.include_sources: Optional[bool]
OptionalBools == {"True", "False", "None"}

Truthy(b) == b = "True"

\* seq[:n] for n an integer or None: a negative n counts from the end
SlicePrefix(seq, v) ==
    IF v.none THEN seq
    ELSE IF v.n >= 0 THEN Slice(seq, 0, v.n)
    ELSE Slice(seq, 0, IF Len(seq) + v.n < 0 THEN 0 ELSE Len(seq) + v.n)

QueryRequest(question, include_sources, max_sources) ==
    [question |-> question, include_sources |-> include_sources,
     max_sources |-> max_sources]

\* `not request.question` alone, without the strip() test
IsRejected_EmptyOnly(question) == question = <<>>

\* query_endpoint: not request.question or not request.question.strip()
IsRejected(question) == question = <<>> \/ IsBlank(question)

\* ----------------------------------------------------------- stream events

MetadataEvent(category, question) ==
    [type |-> "metadata", data |-> [category |-> category, question |-> question]]

ContentEvent(text) == [type |-> "content", data |-> [text |-> text]]

SourcesEvent(sources) == [type |-> "sources", data |-> [sources |-> sources]]

DoneEvent == [type |-> "done", data |-> [status |-> "complete"]]

ErrorEvent(message) == [type |-> "error", data |-> [message |-> message]]

\* the chunk without the trailing space
Chunk_NoTrailingSpace(words, i) == Join(<<" ">>, Slice(words, i, i + chunk_size))

\* chunk = " ".join(words[i:i + chunk_size]) + " "
Chunk(words, i) == Join(<<" ">>, Slice(words, i, i + chunk_size)) \o <<" ">>

\* the sources test without the emptiness test
SendsSources_WhenAsked(include_sources, result) == Truthy(include_sources)

\* if include_sources and result.get('source_documents')
SendsSources(include_sources, result) ==
    Truthy(include_sources) /\ result.source_documents # <<>>

\* [format_source_document(doc) for doc in result['source_documents'][:max_sources]]
Sources(result, max_sources) ==
    LET docs == SlicePrefix(result.source_documents, max_sources)
    IN  [j \in 1..Len(docs) |-> format_source_document(docs[j])]

\* ------------------------------------------------------------------ state

VARIABLES
    vectorstores,   \* ai.vectorstores: loaded category -> its passages
    pc,             \* per request: where its handler / stream generator stands
    req,            \* per request: the QueryRequest received
    category,       \* per request: generate_streaming_response's `category`
    result,         \* per request: generate_streaming_response's `result`
    words,          \* per request: generate_streaming_response's `words`
    idx,            \* per request: the loop variable `i`
    events,         \* per request: the events handed to the consumer, in order
    calls,          \* per request: the pipeline stages run, in order, each with
                    \* the number of events handed over before it ran
    response,       \* per request: the value a non-streaming operation returned
    cli             \* the interactive loop of main(): where it stands, and one
                    \* entry per line read

vars == <<vectorstores, pc, req, category, result, words, idx, events, calls, response, cli>>

\* the request slots of the server; the specifications below serve r1
Requests == {"r1", "r2"}

NoRequest == QueryRequest(<<>>, "None", NoneValue)

NoResponse == [kind |-> "none"]

\* load_vectorstores: the categories whose path exists are loaded; the
\* process exits when none is
LoadedStores ==
    {[c \in S |-> StoreDocs[c]] : S \in (SUBSET Categories) \ {{}}}

InitRequests ==
    /\ pc = [r \in Requests |-> "idle"]
    /\ req = [r \in Requests |-> NoRequest]
    /\ category = [r \in Requests |-> "none"]
    /\ result = [r \in Requests |-> NoResult]
    /\ words = [r \in Requests |-> <<>>]
    /\ idx = [r \in Requests |-> 0]
    /\ events = [r \in Requests |-> <<>>]
    /\ calls = [r \in Requests |-> <<>>]
    /\ response = [r \in Requests |-> NoResponse]
    /\ cli = [at |-> "prompt", log |-> <<>>]

Logged(cs, at) ==
    [j \in 1..Len(cs) |->
        [op |-> cs[j].op, outcome |-> cs[j].outcome, value |-> cs[j].value, at |-> at]]

Emit(r, e) == events' = [events EXCEPT ![r] = Append(@, e)]

Goto(r, label) == pc' = [pc EXCEPT ![r] = label]

\* ---------------------------------------------------------------- actions

\* query_endpoint: validate, then hand the (not yet started) generator to
\* StreamingResponse; a blank question is answered 400 and nothing runs
query_endpoint(r, questions, includes, maxes) ==
    /\ pc[r] = "idle"
    /\ \E q \in questions, inc \in includes, ms \in maxes :
         /\ req' = [req EXCEPT ![r] = QueryRequest(q, inc, ms)]
         /\ IF IsRejected(q) THEN Goto(r, "http_400") ELSE Goto(r, "start")
    /\ UNCHANGED <<cli, response, vectorstores, category, result, words, idx, events, calls>>

\* the generator running the query before it yields the metadata
StartStream_QueryFirst(r) ==
    /\ pc[r] = "start"
    /\ category' = [category EXCEPT ![r] = classify_question(req[r].question)]
    /\ calls' = [calls EXCEPT ![r] =
                   @ \o Logged(<<Call("classify", "returned"),
                                 Call("classify", "returned"),
                                 Call("create_rag_chain", "returned"),
                                 Call("retrieve", "returned"),
                                 Call("generate", "returned")>>, Len(events[r]))]
    /\ Emit(r, MetadataEvent(category'[r], req[r].question))
    /\ Goto(r, "yield_metadata")
    /\ UNCHANGED <<cli, response, vectorstores, req, result, words, idx>>

\* generate_streaming_response up to its first yield: classify, yield metadata
StartStream(r) ==
    /\ pc[r] = "start"
    /\ category' = [category EXCEPT ![r] = classify_question(req[r].question)]
    /\ calls' = [calls EXCEPT ![r] =
                   @ \o Logged(<<CallOf("classify", "returned", category'[r])>>,
                               Len(events[r]))]
    /\ Emit(r, MetadataEvent(category'[r], req[r].question))
    /\ Goto(r, "yield_metadata")
    /\ UNCHANGED <<cli, response, vectorstores, req, result, words, idx>>

\* resumed after the metadata: await asyncio.sleep(0.1)
AfterMetadata(r) ==
    /\ pc[r] = "yield_metadata"
    /\ Goto(r, "sleep_metadata")
    /\ UNCHANGED <<cli, response, vectorstores, req, category, result, words, idx, events, calls>>

\* The generator from loop position i to its next yield: the next content
\* chunk, or past the loop the sources event when it is due, else done.
EmitNext(r, w, res, i) ==
    IF i < Len(w)
    THEN /\ Emit(r, ContentEvent(Chunk(w, i)))
         /\ idx' = [idx EXCEPT ![r] = i]
         /\ Goto(r, "yield_content")
    ELSE IF SendsSources(req[r].include_sources, res)
         THEN /\ Emit(r, SourcesEvent(Sources(res, req[r].max_sources)))
              /\ idx' = idx
              /\ Goto(r, "yield_sources")
         ELSE /\ Emit(r, DoneEvent)
              /\ idx' = idx
              /\ Goto(r, "yield_done")

\* the failure taken for an empty answer
ExceptHandler_EmptyAnswer(r, message) == EmitNext(r, <<>>, NoResult, 0)

\* except Exception as e: yield the error event
ExceptHandler(r, message) ==
    /\ Emit(r, ErrorEvent(message))
    /\ idx' = idx
    /\ Goto(r, "yield_error")

\* the query keeping the answer's tokens in one place for all requests
RunQuery_SharedWords(r, answers) ==
    /\ pc[r] = "sleep_metadata"
    /\ \E env \in Environments(answers) :
         LET q == query(req[r].question, vectorstores, env)
         IN  /\ calls' = [calls EXCEPT ![r] = @ \o Logged(q.calls, Len(events[r]))]
             /\ IF q.raised
                THEN /\ ExceptHandler(r, q.message)
                     /\ UNCHANGED <<result, words>>
                ELSE /\ result' = [result EXCEPT ![r] = q.result]
                     /\ words' = [other \in Requests |-> Split(q.result.result)]
                     /\ EmitNext(r, Split(q.result.result), q.result, 0)
    /\ UNCHANGED <<cli, response, vectorstores, req, category>>

\* woken from the first sleep: ai.query, then on to the next yield
RunQuery(r, answers) ==
    /\ pc[r] = "sleep_metadata"
    /\ \E env \in Environments(answers) :
         LET q == query(req[r].question, vectorstores, env)
         IN  /\ calls' = [calls EXCEPT ![r] = @ \o Logged(q.calls, Len(events[r]))]
             /\ IF q.raised
                THEN /\ ExceptHandler(r, q.message)
                     /\ UNCHANGED <<result, words>>
                ELSE /\ result' = [result EXCEPT ![r] = q.result]
                     /\ words' = [words EXCEPT ![r] = Split(q.result.result)]
                     /\ EmitNext(r, Split(q.result.result), q.result, 0)
    /\ UNCHANGED <<cli, response, vectorstores, req, category>>

\* resumed after a content chunk: await asyncio.sleep(0.05)
AfterContent(r) ==
    /\ pc[r] = "yield_content"
    /\ Goto(r, "sleep_content")
    /\ UNCHANGED <<cli, response, vectorstores, req, category, result, words, idx, events, calls>>

\* the loop stepping one token too far
NextChunk_SkipsToken(r) ==
    /\ pc[r] = "sleep_content"
    /\ EmitNext(r, words[r], result[r], idx[r] + chunk_size + 1)
    /\ UNCHANGED <<cli, response, vectorstores, req, category, result, words, calls>>

\* woken from a pacing sleep: the next iteration of the chunk loop
NextChunk(r) ==
    /\ pc[r] = "sleep_content"
    /\ EmitNext(r, words[r], result[r], idx[r] + chunk_size)
    /\ UNCHANGED <<cli, response, vectorstores, req, category, result, words, calls>>

\* the generator returning after the sources event without the done event
AfterSources_NoDone(r) ==
    /\ pc[r] = "yield_sources"
    /\ Goto(r, "finished")
    /\ UNCHANGED <<cli, response, vectorstores, req, category, result, words, idx, events, calls>>

\* resumed after the sources event: yield done
AfterSources(r) ==
    /\ pc[r] = "yield_sources"
    /\ Emit(r, DoneEvent)
    /\ Goto(r, "yield_done")
    /\ UNCHANGED <<cli, response, vectorstores, req, category, result, words, idx, calls>>

\* resumed after done: the generator returns
AfterDone(r) ==
    /\ pc[r] = "yield_done"
    /\ Goto(r, "finished")
    /\ UNCHANGED <<cli, response, vectorstores, req, category, result, words, idx, events, calls>>

\* a completion signal sent from the handler as well
AfterError_SendsDone(r) ==
    /\ pc[r] = "yield_error"
    /\ Emit(r, DoneEvent)
    /\ Goto(r, "yield_done")
    /\ UNCHANGED <<cli, response, vectorstores, req, category, result, words, idx, calls>>

\* resumed after the error event: the generator returns
AfterError(r) ==
    /\ pc[r] = "yield_error"
    /\ Goto(r, "finished")
    /\ UNCHANGED <<cli, response, vectorstores, req, category, result, words, idx, events, calls>>

\* list(ai.vectorstores.keys()): load_vectorstores inserts the stores found
\* on disk in the order of self.categories
LoadedOrder(vs) == SelectSeq(CATEGORIES, LAMBDA c : c \in DOMAIN vs)

\* GET /health
health_check(r) ==
    /\ pc[r] = "idle"
    /\ response' = [response EXCEPT ![r] =
                      [kind |-> "health", status |-> "healthy",
                       categories_loaded |-> LoadedOrder(vectorstores)]]
    /\ Goto(r, "responded")
    /\ UNCHANGED <<cli, vectorstores, req, category, result, words, idx, events, calls>>

\* vectorstore.index.ntotal: one vector per stored passage
ntotal(store) == Len(store)

\* the listing that skips a store whose index gives no count
get_categories_CountedOnly(r, exposed) ==
    /\ pc[r] = "idle"
    /\ response' = [response EXCEPT ![r] =
          [kind |-> "categories",
           categories |-> [c \in exposed |->
                [name |-> c, document_count |-> ntotal(vectorstores[c]), status |-> "active"]],
           total |-> Cardinality(exposed)]]
    /\ calls' = [calls EXCEPT ![r] =
          @ \o Logged([n \in 1..Len(LoadedOrder(vectorstores)) |->
                         CallOf("ntotal",
                                IF LoadedOrder(vectorstores)[n] \in exposed
                                THEN "returned" ELSE "raised",
                                LoadedOrder(vectorstores)[n])], 0)]
    /\ Goto(r, "responded")
    /\ UNCHANGED <<cli, vectorstores, req, category, result, words, idx, events>>

\* GET /categories: one entry per loaded store, with the count of its index
\* when reading it succeeds (exposed: the stores whose index gives a count)
get_categories(r, exposed) ==
    /\ pc[r] = "idle"
    /\ response' = [response EXCEPT ![r] =
          [kind |-> "categories",
           categories |-> [c \in DOMAIN vectorstores |->
                IF c \in exposed
                THEN [name |-> c, document_count |-> ntotal(vectorstores[c]),
                      status |-> "active"]
                ELSE [name |-> c, status |-> "active"]],
           total |-> Cardinality(DOMAIN vectorstores)]]
    /\ calls' = [calls EXCEPT ![r] =
          @ \o Logged([n \in 1..Len(LoadedOrder(vectorstores)) |->
                         CallOf("ntotal",
                                IF LoadedOrder(vectorstores)[n] \in exposed
                                THEN "returned" ELSE "raised",
                                LoadedOrder(vectorstores)[n])], 0)]
    /\ Goto(r, "responded")
    /\ UNCHANGED <<cli, vectorstores, req, category, result, words, idx, events>>

\* doc.metadata['retrieved_from'] = category
Tagged(doc, c) ==
    [doc EXCEPT !.metadata =
        [key \in DOMAIN doc.metadata \cup {"retrieved_from"} |->
            IF key = "retrieved_from" THEN c ELSE doc.metadata[key]]]

\* the loop that gives up at the first store whose search raises
SearchFrom_AbortsOnFailure(vs, question, k, failing, n) ==
    LET order == LoadedOrder(vs)
        stop == IF \E m \in n..Len(order) : order[m] \in failing
                THEN CHOOSE m \in n..Len(order) :
                        order[m] \in failing /\ \A l \in n..(m - 1) : order[l] \notin failing
                ELSE Len(order) + 1
    IN  [m \in 1..(stop - n) |->
            [store |-> order[n + m - 1], question |-> question, k |-> k,
             outcome |-> "returned",
             results |-> [i \in 1..Len(similarity_search(vs[order[n + m - 1]], question, k)) |->
                            Tagged(similarity_search(vs[order[n + m - 1]], question, k)[i],
                                   order[n + m - 1])]]]

RECURSIVE SearchFrom(_, _, _, _, _)
\* the loop of search_all_categories over the loaded stores from position n,
\* one record per iteration: the similarity query issued, whether it
\* returned or raised, and the results appended (none for a store whose
\* search raises: the bare except continues with the next store)
SearchFrom(vs, question, k, failing, n) ==
    IF n > Len(LoadedOrder(vs)) THEN <<>>
    ELSE LET c == LoadedOrder(vs)[n]
             results == similarity_search(vs[c], question, k)
         IN  <<[store |-> c, question |-> question, k |-> k,
                outcome |-> IF c \in failing THEN "raised" ELSE "returned",
                results |-> IF c \in failing THEN <<>>
                            ELSE [i \in 1..Len(results) |-> Tagged(results[i], c)]]>>
             \o SearchFrom(vs, question, k, failing, n + 1)

\* the similarity queries of a run of the loop, without their results
Queries(searched) ==
    [n \in 1..Len(searched) |->
        [store |-> searched[n].store, question |-> searched[n].question,
         k |-> searched[n].k, outcome |-> searched[n].outcome]]

\* the search returning everything it collected
search_all_categories_Untruncated(r, question, k, failing) ==
    /\ pc[r] = "idle"
    /\ \E searched \in {SearchFrom(vectorstores, question, k, failing, 1)} :
         /\ vectorstores' = vectorstores
         /\ response' = [response EXCEPT ![r] =
               [kind |-> "search",
                results |-> Concat([n \in 1..Len(searched) |-> searched[n].results]),
                queries |-> Queries(searched)]]
    /\ UNCHANGED <<cli, pc, req, category, result, words, idx, events, calls>>

\* SierraLeoneAI.search_all_categories.  similarity_search hands out the
\* Document objects the store's docstore holds, so the tag written on a
\* result is written on the stored passage.  The returned value is `results`;
\* `queries` records the similarity queries the call issued.
search_all_categories(r, question, k, failing) ==
    /\ pc[r] = "idle"
    /\ \E searched \in {SearchFrom(vectorstores, question, k, failing, 1)} :
         /\ vectorstores' =
               [c \in DOMAIN vectorstores |->
                   IF \E n \in 1..Len(searched) :
                          searched[n].store = c /\ searched[n].outcome = "returned"
                   THEN [i \in 1..Len(vectorstores[c]) |->
                            IF i <= k THEN Tagged(vectorstores[c][i], c)
                            ELSE vectorstores[c][i]]
                   ELSE vectorstores[c]]
         /\ response' = [response EXCEPT ![r] =
               [kind |-> "search",
                results |-> Slice(Concat([n \in 1..Len(searched) |-> searched[n].results]),
                                  0, k * 3),
                queries |-> Queries(searched)]]
    /\ UNCHANGED <<cli, pc, req, category, result, words, idx, events, calls>>

\* ["exit", "quit", "q"]
ExitWords == {<<"e","x","i","t">>, <<"q","u","i","t">>, <<"q">>}

\* what the loop did with a line: `asked` holds the question passed to
\* ai.query, if any
Iteration(line, outcome, asked) == [line |-> line, outcome |-> outcome, asked |-> asked]

\* One iteration of the while loop of main(): read a line, strip it; prompt
\* again for an empty one, break on an exit word, else ai.query inside the
\* try, reporting the answer or the exception.
main_loop(lines, answers, MaxIterations) ==
    /\ cli.at = "prompt"
    /\ Len(cli.log) < MaxIterations
    /\ \E line \in lines :
         LET question == Strip(line)
         IN  IF question = <<>>
             THEN cli' = [cli EXCEPT !.log = Append(@, Iteration(line, "empty", <<>>))]
             ELSE IF Lower(question) \in ExitWords
             THEN cli' = [at |-> "ended",
                          log |-> Append(cli.log, Iteration(line, "exit", <<>>))]
             ELSE \E env \in Environments(answers) :
                      cli' = [cli EXCEPT !.log =
                                Append(@, Iteration(line,
                                          IF query(question, vectorstores, env).raised
                                          THEN "error" ELSE "answered",
                                          <<question>>))]
    /\ UNCHANGED <<vectorstores, pc, req, category, result, words, idx, events, calls, response>>

\* input() at the end of the input: EOFError is raised outside the try and
\* leaves main()
EndOfInput ==
    /\ cli.at = "prompt"
    /\ cli' = [cli EXCEPT !.at = "eof"]
    /\ UNCHANGED <<vectorstores, pc, req, category, result, words, idx, events, calls, response>>

\* the positions at which the generator is suspended: before its first
\* step, at a yield, or in an await asyncio.sleep
SuspensionPoints ==
    {"start", "yield_metadata", "sleep_metadata", "yield_content", "sleep_content",
     "yield_sources", "yield_done", "yield_error"}

\* the disconnect caught by the handler like a failure of the query
Cancel_CaughtAsError(r) ==
    /\ pc[r] \in SuspensionPoints
    /\ Emit(r, ErrorEvent("cancelled"))
    /\ Goto(r, "cancelled")
    /\ UNCHANGED <<cli, response, vectorstores, req, category, result, words, idx, calls>>

\* The consumer disconnects: GeneratorExit is thrown in at the yield, or
\* asyncio.CancelledError at the await.  Neither is an Exception, so the
\* except clause does not run, there is no finally, and the generator ends.
Cancel(r) ==
    /\ pc[r] \in SuspensionPoints
    /\ Goto(r, "cancelled")
    /\ UNCHANGED <<cli, response, vectorstores, req, category, result, words, idx, events, calls>>

\* ------------------------------------------------------------ input sets

\* max_sources ranges over None and the integers -MaxSources..MaxSources
MaxSources == 3

MaxSourcesValues == {NoneValue} \cup {IntValue(n) : n \in (0 - MaxSources)..MaxSources}

\* questions of the streaming specification: empty, whitespace only, one per
\* category reached (history, culture by a tie with politics, politics,
\* general)
StreamQuestions ==
    { <<>>, <<" ","\n">>, <<"W","a","r","?">>, <<"K","r","i","o"," ","v","o","t","e">>,
      <<"v","o","t","e">>, <<"h","e","l","l","o">> }

\* answers of the streaming specification: none, whitespace only, 1, 3, 4 and
\* 7 tokens, with irregular whitespace
StreamAnswers ==
    { <<>>, <<" ">>, <<"a">>, <<"a"," ","b"," ","c">>,
      <<" ","a"," ","b"," "," ","c"," ","d">>, <<"a"," "," ","b","\n","c"," ","d"," ","e"," ","f"," ","g"," ">> }

SeqsUpTo(S, n) == UNION {[1..k -> S] : k \in 0..n}

\* answers of the chunking specification: every text over the alphabet of at
\* most MaxAnswerLen characters
MaxAnswerLen == 7

AnswerAlphabet == {"a", "b", " "}

ChunkAnswers == SeqsUpTo(AnswerAlphabet, MaxAnswerLen)

\* questions of the classification specification: at most MaxQuestionWords
\* words of the vocabulary, separated by single spaces
MaxQuestionWords == 3

Vocabulary ==
    { <<"C","i","v","i","l">>, <<"W","a","r">>, <<"K","r","i","o">>, <<"v","o","t","e">>,
      <<"L","e","o","n","e">>, <<"a","w","a","r","d">>, <<"h","e","l","l","o">>, <<"M","U","S","I","C">> }

ClassifyQuestions == {Join(<<" ">>, ws) : ws \in SeqsUpTo(Vocabulary, MaxQuestionWords)}

AllLoaded == [c \in Categories |-> StoreDocs[c]]

\* ------------------------------------------------------- specifications

\* the stream generator of request r, after the endpoint accepted it
Stream(r, answers) ==
    \/ StartStream(r)
    \/ AfterMetadata(r)
    \/ RunQuery(r, answers)
    \/ AfterContent(r)
    \/ NextChunk(r)
    \/ AfterSources(r)
    \/ AfterDone(r)
    \/ AfterError(r)

\* One request against any loaded set of indexes.
Init ==
    /\ vectorstores \in LoadedStores
    /\ InitRequests

Next ==
    \E r \in {"r1"} :
        \/ query_endpoint(r, StreamQuestions, OptionalBools, MaxSourcesValues)
        \/ Stream(r, StreamAnswers)

Spec == Init /\ [][Next]_vars

\* Chunking: one request, every answer text of the bounded alphabet.
InitChunk ==
    /\ vectorstores = AllLoaded
    /\ InitRequests

NextChunkSpec ==
    \E r \in {"r1"} :
        \/ query_endpoint(r, {<<"W","a","r","?">>}, {"True", "False"}, {IntValue(RetrieverK)})
        \/ Stream(r, ChunkAnswers)

SpecChunk == InitChunk /\ [][NextChunkSpec]_vars

\* Classification: one request, every question of the bounded vocabulary,
\* run up to the metadata event that carries the category.
NextClassify ==
    \E r \in {"r1"} :
        \/ query_endpoint(r, ClassifyQuestions, {"True"}, {IntValue(RetrieverK)})
        \/ StartStream(r)

SpecClassify == InitChunk /\ [][NextClassify]_vars

\* Cancellation: one request against all indexes, which the consumer may
\* leave at any suspension point.
NextCancel ==
    \E r \in {"r1"} :
        \/ query_endpoint(r, {<<"W","a","r","?">>, <<"h","e","l","l","o">>},
                          {"True", "False"}, {IntValue(RetrieverK)})
        \/ Stream(r, StreamAnswers)
        \/ Cancel(r)

SpecCancel == InitChunk /\ [][NextCancel]_vars

\* Status surfaces: one health or listing request against any loaded set of
\* indexes, each index giving its count or not.
NextSurfaces ==
    \E r \in {"r1"} :
        \/ health_check(r)
        \/ \E exposed \in SUBSET DOMAIN vectorstores : get_categories(r, exposed)

SpecSurfaces == Init /\ [][NextSurfaces]_vars

\* Concurrency: two requests served as cooperative tasks against all
\* indexes; a step runs one generator from a suspension point to its next.
ConcurrentQuestions == {<<"W","a","r","?">>, <<"h","e","l","l","o">>}

ConcurrentAnswers == {<<"a">>, <<"a"," ","b"," ","c"," ","d">>,  <<"e"," ","f"," ","g"," ","h"," ","i">>}

NextConcurrent ==
    \E r \in Requests :
        \/ query_endpoint(r, ConcurrentQuestions, {"True", "False"}, {IntValue(RetrieverK)})
        \/ Stream(r, ConcurrentAnswers)

SpecConcurrent == InitChunk /\ [][NextConcurrent]_vars

\* All-categories retrieval: searches with k up to MaxK against any loaded
\* set of indexes, any of which may fail, before one streamed request.
MaxK == 2

\* the model's similarity_search does not look at the question: one is enough
SearchQuestions == {<<"K","r","i","o"," ","v","o","t","e">>}

NextSearch ==
    \E r \in {"r1"} :
        \/ \E question \in SearchQuestions, k \in 1..MaxK,
              failing \in SUBSET DOMAIN vectorstores :
               search_all_categories(r, question, k, failing)
        \/ query_endpoint(r, {<<"W","a","r","?">>}, {"True"}, {IntValue(RetrieverK)})
        \/ Stream(r, {<<"a">>})

SpecSearch == Init /\ [][NextSearch]_vars

\* All-categories retrieval alone: any number of searches, one after the
\* other, against any loaded set of indexes, any of which may fail.
NextRetrieve ==
    \E r \in {"r1"} :
        \E question \in SearchQuestions, k \in 1..MaxK,
           failing \in SUBSET DOMAIN vectorstores :
            search_all_categories(r, question, k, failing)

SpecRetrieve == Init /\ [][NextRetrieve]_vars

\* The interactive loop: up to MaxLines lines typed at the prompt, then
\* possibly the end of the input.
MaxLines == 3

InputLines ==
    { <<>>, <<" ","\t">>, <<"q">>, <<" ","Q"," ">>, <<"E","x","i","t">>, <<"q","u","i","t","\n">>,
      <<"q","u","i","t","s">>, <<"W","a","r","?">>, <<" ","h","e","l","l","o">> }

NextMain ==
    \/ main_loop(InputLines, {<<"a">>}, MaxLines)
    \/ EndOfInput

SpecMain == InitChunk /\ [][NextMain]_vars

\* ------------------------------------------------- vocabulary of the claims

Types(r) == [i \in 1..Len(events[r]) |-> events[r][i].type]

Count(r, ty) == Cardinality({i \in 1..Len(events[r]) : events[r][i].type = ty})

Repeat(x, n) == [i \in 1..n |-> x]

\* the generation service was called for r and returned
Succeeded(r) ==
    \E j \in 1..Len(calls[r]) :
        calls[r][j].op = "generate" /\ calls[r][j].outcome = "returned"

\* the generation service was called for r and raised
GenerationFailed(r) ==
    \E j \in 1..Len(calls[r]) :
        calls[r][j].op = "generate" /\ calls[r][j].outcome = "raised"

\* some stage of the pipeline raised for r
Raised(r) == \E j \in 1..Len(calls[r]) : calls[r][j].outcome = "raised"

\* metadata, at least minContent content events, at most one sources, done
SuccessShape(ts, minContent) ==
    \E k \in minContent..Len(ts), s \in {0, 1} :
        ts = <<"metadata">> \o Repeat("content", k) \o Repeat("sources", s) \o <<"done">>

\* the text payloads of r's content events, in emission order
ContentTexts(r) ==
    LET at == {i \in 1..Len(events[r]) : events[r][i].type = "content"}
        nth(n) == CHOOSE i \in at : Cardinality({j \in at : j < i}) = n - 1
    IN  [n \in 1..Cardinality(at) |-> events[r][nth(n)].data.text]

IsPrefix(a, b) == Len(a) <= Len(b) /\ SubSeq(b, 1, Len(a)) = a

\* ------------------------------------------------------------------ C1

\* C1, as stated: a finished successful stream is one metadata event, one or
\* more content events, at most one sources event, then done, whatever the
\* answer text.
C1_OneOrMoreContent ==
    \A r \in Requests :
        (pc[r] = "finished" /\ Succeeded(r)) => SuccessShape(Types(r), 1)

\* C1, amended: a finished successful stream is one metadata event, then
\* zero or more content events (at least one exactly when the answer holds a
\* non-whitespace token), then at most one sources event, then done last.
C1_SuccessSequence ==
    \A r \in Requests :
        (pc[r] = "finished" /\ Succeeded(r)) =>
            /\ SuccessShape(Types(r), 0)
            /\ (Count(r, "content") >= 1) <=> ~IsBlank(result[r].result)

C1_Witness ==
    \E r \in Requests :
        /\ pc[r] = "finished" /\ Succeeded(r)
        /\ Count(r, "content") >= 2 /\ Count(r, "sources") = 1

\* ------------------------------------------------------------------ C2

\* C2: when the generation call raises, the request's events are exactly the
\* metadata event followed by one error event.
C2_GenerationFailure ==
    \A r \in Requests :
        GenerationFailed(r) => Types(r) = <<"metadata", "error">>

C2_Witness ==
    \E r \in Requests :
        /\ GenerationFailed(r) /\ pc[r] = "finished"
        /\ events[r][2].data.message = "generation failed"

\* ------------------------------------------------------------------ C3

\* C3: a stage that raises yields exactly one error event; error and done
\* each occur at most once, never both, and whichever occurs is the last
\* event of the stream.
C3_ErrorTerminal ==
    \A r \in Requests :
        /\ Count(r, "error") <= 1
        /\ Count(r, "done") <= 1
        /\ ~(Count(r, "error") = 1 /\ Count(r, "done") = 1)
        /\ \A i \in 1..Len(events[r]) :
               events[r][i].type \in {"error", "done"} => i = Len(events[r])
        /\ Raised(r) => Count(r, "error") = 1

C3_Witness ==
    \E r \in Requests :
        /\ Raised(r) /\ pc[r] = "finished"
        /\ events[r][Len(events[r])].type = "error"

\* ------------------------------------------------------------------ C4

\* C4: a request whose question is empty or whitespace only is answered 400
\* with no pipeline stage run and no event emitted.
C4_BlankRejected ==
    \A r \in Requests :
        (pc[r] # "idle" /\ \A i \in 1..Len(req[r].question) :
                               req[r].question[i] \in Whitespace) =>
            /\ pc[r] = "http_400"
            /\ events[r] = <<>>
            /\ calls[r] = <<>>

C4_Witness ==
    \E r \in Requests :
        pc[r] = "http_400" /\ req[r].question # <<>> /\ events[r] = <<>>

\* ------------------------------------------------------------------ C5

\* C5: classification runs first, before any event; chain construction,
\* retrieval and generation run only after the metadata event was handed
\* over; and generation follows a retrieval that returned, which follows a
\* classification.
C5_MetadataBeforeQuery ==
    \A r \in Requests :
        /\ events[r] # <<>> =>
               /\ events[r][1].type = "metadata"
               /\ calls[r] # <<>>
               /\ calls[r][1].op = "classify" /\ calls[r][1].at = 0
        /\ \A j \in 1..Len(calls[r]) :
               /\ calls[r][j].op \in {"create_rag_chain", "retrieve", "generate"} =>
                      calls[r][j].at >= 1
               /\ calls[r][j].op = "retrieve" =>
                      \E h \in 1..(j - 1) : calls[r][h].op = "classify"
               /\ calls[r][j].op = "generate" =>
                      /\ j > 1
                      /\ calls[r][j - 1].op = "retrieve"
                      /\ calls[r][j - 1].outcome = "returned"

C5_Witness ==
    \E r \in Requests :
        \E j \in 1..Len(calls[r]) : calls[r][j].op = "generate" /\ calls[r][j].at = 1

\* ------------------------------------------------------------------ C6

\* C6: the content payloads concatenated in emission order split into a
\* prefix of the answer's whitespace-delimited tokens, and into exactly the
\* answer's tokens once the chunk loop is over.
C6_ContentReconstructs ==
    \A r \in Requests :
        Succeeded(r) =>
            /\ IsPrefix(Split(Concat(ContentTexts(r))), Split(result[r].result))
            /\ pc[r] \in {"yield_sources", "yield_done", "finished"} =>
                   Split(Concat(ContentTexts(r))) = Split(result[r].result)

C6_Witness ==
    \E r \in Requests :
        /\ pc[r] = "finished" /\ Succeeded(r)
        /\ Count(r, "content") >= 2
        /\ Concat(ContentTexts(r)) # result[r].result

\* ------------------------------------------------------------------ C7

\* C7: a sources event holds at most max_sources entries (read as none for a
\* negative max_sources, the weakest reading of the cap), and no content
\* preview is longer than the preview length plus the truncation marker.
C7_SourcesBounded ==
    \A r \in Requests :
        \A i \in 1..Len(events[r]) :
            events[r][i].type = "sources" =>
                LET sources == events[r][i].data.sources
                    cap == IF req[r].max_sources.n < 0 THEN 0 ELSE req[r].max_sources.n
                IN  /\ ~req[r].max_sources.none => Len(sources) <= cap
                    /\ \A j \in 1..Len(sources) :
                           Len(sources[j].content) <= PreviewLen + Len(TruncationMarker)

\* ------------------------------------------------------------------ C8

\* C8: once done is emitted on a successful stream, there is exactly one
\* sources event, right after the last content event and right before done,
\* when include_sources is true and the result holds a passage; otherwise
\* there is none and done follows the content events directly.
C8_SourcesWhenDue ==
    \A r \in Requests :
        (Succeeded(r) /\ pc[r] \in {"yield_done", "finished"}) =>
            LET n == Len(events[r])
                contents == Count(r, "content")
            IN  IF req[r].include_sources = "True" /\ Len(result[r].source_documents) >= 1
                THEN Types(r) = <<"metadata">> \o Repeat("content", contents)
                                  \o <<"sources", "done">>
                ELSE Types(r) = <<"metadata">> \o Repeat("content", contents)
                                  \o <<"done">>

C8_Witness ==
    \E r \in Requests :
        /\ pc[r] = "finished" /\ Succeeded(r)
        /\ req[r].include_sources = "True"
        /\ Len(result[r].source_documents) >= 1
        /\ Count(r, "sources") = 1
        /\ Count(r, "content") >= 1

\* ------------------------------------------------------------------ C9

\* C9: when neither the classified category's index nor the general index
\* is loaded, the query raises the missing-index error and the stream is the
\* metadata event followed by that one error event, with no retrieval or
\* generation attempted.
C9_IndexUnavailable ==
    \A r \in Requests :
        (/\ pc[r] \in {"yield_content", "sleep_content", "yield_sources",
                       "yield_done", "yield_error", "finished"}
         /\ category[r] \notin DOMAIN vectorstores
         /\ "general" \notin DOMAIN vectorstores) =>
            /\ Types(r) = <<"metadata", "error">>
            /\ events[r][2].data.message = "'general'"
            /\ \A j \in 1..Len(calls[r]) : calls[r][j].op \notin {"retrieve", "generate"}

C9_Witness ==
    \E r \in Requests :
        /\ pc[r] = "finished"
        /\ category[r] \notin DOMAIN vectorstores
        /\ "general" \notin DOMAIN vectorstores
        /\ Types(r) = <<"metadata", "error">>

\* ----------------------------------------------------------------- C10

Position(c) == CHOOSE i \in 1..Len(KeywordOrder) : KeywordOrder[i] = c

\* C10: when some keyword matches, the category returned has the maximal
\* match count, and every category declared before it has a strictly smaller
\* count.
C10_FirstDeclaredMaximum ==
    \A r \in Requests :
        LET sc == Scores(req[r].question)
        IN  (category[r] # "none" /\ \E c \in DOMAIN keywords : sc[c] > 0) =>
                /\ category[r] \in DOMAIN keywords
                /\ \A c \in DOMAIN keywords :
                       /\ sc[c] <= sc[category[r]]
                       /\ Position(c) < Position(category[r]) => sc[c] < sc[category[r]]

\* a tie at the maximum between history and culture resolved to history,
\* the first declared and not the alphabetically first
C10_Witness ==
    \E r \in Requests :
        LET sc == Scores(req[r].question)
        IN  /\ category[r] = "history"
            /\ sc["history"] = sc["culture"]
            /\ sc["history"] >= 1
            /\ \A c \in DOMAIN keywords : sc[c] <= sc["history"]

\* ----------------------------------------------------------------- C11

\* some keyword of some category occurs in the lowercased question
SomeKeywordOccurs(question) ==
    \E c \in DOMAIN keywords :
        \E i \in 1..Len(keywords[c]) : Contains(keywords[c][i], Lower(question))

\* C11: every classified question gets a category of the closed set, and
\* gets general exactly when no keyword of any category occurs in the
\* lowercased question.
C11_ClosedSetGeneralIffNoKeyword ==
    \A r \in Requests :
        category[r] # "none" =>
            /\ category[r] \in Categories
            /\ category[r] = "general" <=> ~SomeKeywordOccurs(req[r].question)

\* a three-word question without any keyword was classified general
C11_Witness ==
    \E r \in Requests :
        /\ category[r] = "general"
        /\ Len(Split(req[r].question)) = MaxQuestionWords
        /\ ~SomeKeywordOccurs(req[r].question)

\* ----------------------------------------------------------------- C12

\* the stages of r's pipeline with the given name, in the order they ran
CallsOf(r, op) == SelectSeq(calls[r], LAMBDA c : c.op = op)

EntriesAt(r, i) ==
    {events[r][i].data.sources[j] : j \in 1..Len(events[r][i].data.sources)}

\* C13, as stated: every passage reported in the sources event of a request
\* whose retrieval was asked for category X has category = retrieved_from = X.
C13_PassagesOfRequestedCategory ==
    \A r \in Requests :
        \A i \in 1..Len(events[r]) :
            events[r][i].type = "sources" =>
                \A e \in EntriesAt(r, i) :
                    e.category = category[r] /\ e.retrieved_from = category[r]

\* C13, amended: every passage reported in the sources event has category =
\* retrieved_from = the index the retrieval was issued against, which is the
\* requested category when its index is loaded and general otherwise.
C13_PassagesOfSearchedIndex ==
    \A r \in Requests :
        \A i \in 1..Len(events[r]) :
            events[r][i].type = "sources" =>
                /\ Len(CallsOf(r, "retrieve")) = 1
                /\ CallsOf(r, "retrieve")[1].value =
                       IF category[r] \in DOMAIN vectorstores THEN category[r] ELSE "general"
                /\ \A e \in EntriesAt(r, i) :
                       /\ e.category = CallsOf(r, "retrieve")[1].value
                       /\ e.retrieved_from = CallsOf(r, "retrieve")[1].value

\* a question classified history served from the general index: the
\* reported passages carry general
C13_Witness ==
    \E r \in Requests :
        /\ category[r] = "history"
        /\ "history" \notin DOMAIN vectorstores
        /\ \E i \in 1..Len(events[r]) :
               /\ events[r][i].type = "sources"
               /\ Len(events[r][i].data.sources) = 2
               /\ \A e \in EntriesAt(r, i) :
                      e.category = "general" /\ e.retrieved_from = "general"

\* ----------------------------------------------------------------- C14

\* C14: the step in which a request is cancelled, and every step after it,
\* adds no event to the request's stream, leaves the request cancelled, and
\* writes nothing to the index stores or to any returned value.
C14_CancelledEmitsNothing ==
    [][\A r \in Requests :
          (pc[r] = "cancelled" \/ pc'[r] = "cancelled") =>
              /\ pc'[r] = "cancelled"
              /\ events'[r] = events[r]
              /\ vectorstores' = vectorstores
              /\ response' = response]_vars

\* a stream cancelled between two content chunks: it ends on a content
\* event, with tokens of the answer still unsent
C14_Witness ==
    \E r \in Requests :
        /\ pc[r] = "cancelled"
        /\ Len(events[r]) >= 2
        /\ events[r][Len(events[r])].type = "content"
        /\ idx[r] + chunk_size < Len(words[r])
        /\ Count(r, "done") = 0
        /\ Count(r, "error") = 0

\* ----------------------------------------------------------------- C15

\* the read of the index count of category c succeeded for request r
CountObtained(r, c) ==
    \E j \in 1..Len(calls[r]) :
        calls[r][j] = [op |-> "ntotal", outcome |-> "returned", value |-> c, at |-> 0]

\* C15: categories_loaded lists each loaded category once and nothing else;
\* the listing has one entry per loaded category, holding name, active
\* status and, exactly when the index gave it, its count; total is the
\* number of loaded categories.
C15_SurfacesReportLoaded ==
    \A r \in Requests :
        /\ response[r].kind = "health" =>
               /\ {response[r].categories_loaded[i] :
                       i \in 1..Len(response[r].categories_loaded)} = DOMAIN vectorstores
               /\ Len(response[r].categories_loaded) = Cardinality(DOMAIN vectorstores)
        /\ response[r].kind = "categories" =>
               /\ DOMAIN response[r].categories = DOMAIN vectorstores
               /\ response[r].total = Cardinality(DOMAIN vectorstores)
               /\ \A c \in DOMAIN response[r].categories :
                      LET entry == response[r].categories[c]
                      IN  /\ entry.name = c
                          /\ entry.status = "active"
                          /\ IF CountObtained(r, c)
                             THEN /\ DOMAIN entry = {"name", "document_count", "status"}
                                  /\ entry.document_count = Len(vectorstores[c])
                             ELSE DOMAIN entry = {"name", "status"}

\* a listing of three loaded categories, one with an empty index counted 0
\* and one whose index gave no count
C15_Witness ==
    \E r \in Requests :
        /\ response[r].kind = "categories"
        /\ response[r].total = 3
        /\ "politics" \in DOMAIN response[r].categories
        /\ response[r].categories["politics"] =
               [name |-> "politics", document_count |-> 0, status |-> "active"]
        /\ \E c \in DOMAIN response[r].categories :
               response[r].categories[c] = [name |-> c, status |-> "active"]

\* ----------------------------------------------------------------- C16

\* the content events of a token list: one per chunk_size tokens
ContentEvents(w) ==
    [n \in 1..((Len(w) + chunk_size - 1) \div chunk_size) |->
        ContentEvent(Chunk(w, (n - 1) * chunk_size))]

\* the message of the stage that raised for r
RaisedMessage(r) ==
    LET last == calls[r][Len(calls[r])]
    IN  IF last.op = "retrieve" THEN "retrieval failed"
        ELSE IF last.op = "generate" THEN "generation failed"
        ELSE KeyErrorGeneral

\* the stream of request r served alone, from its own question, its own
\* flags and the outcome of its own query
AloneStream(r) ==
    <<MetadataEvent(classify_question(req[r].question), req[r].question)>> \o
    IF Raised(r)
    THEN <<ErrorEvent(RaisedMessage(r))>>
    ELSE ContentEvents(Split(result[r].result)) \o
         (IF SendsSources(req[r].include_sources, result[r])
          THEN <<SourcesEvent(Sources(result[r], req[r].max_sources))>>
          ELSE <<>>) \o
         <<DoneEvent>>

\* the query of request r has run
Queried(r) == \E j \in 1..Len(calls[r]) : calls[r][j].op = "create_rag_chain"

\* the variables of request r
Own(r) == <<pc[r], req[r], category[r], result[r], words[r], idx[r], events[r], calls[r],
            response[r]>>

\* C16: in every interleaving, what a request has emitted is a prefix of the
\* stream it produces alone, and the whole of it once finished; and a step
\* of one request changes nothing of another request or of the index stores.
C16_RequestsIndependent ==
    /\ [](\A r \in Requests :
            /\ Queried(r) => IsPrefix(events[r], AloneStream(r))
            /\ ~Queried(r) =>
                   IsPrefix(events[r],
                            <<MetadataEvent(classify_question(req[r].question),
                                            req[r].question)>>)
            /\ pc[r] = "finished" => events[r] = AloneStream(r))
    /\ [][/\ vectorstores' = vectorstores
          /\ \A r \in Requests : pc'[r] = pc[r] => Own(r)' = Own(r)]_vars

\* two requests in the middle of their streams at once, with different
\* questions, categories and answers
C16_Witness ==
    /\ pc["r1"] = "sleep_content"
    /\ pc["r2"] = "yield_content"
    /\ category["r1"] # category["r2"]
    /\ words["r1"] # words["r2"]
    /\ Len(words["r1"]) > chunk_size
    /\ Len(words["r2"]) > chunk_size
    /\ Len(events["r1"]) = 2
    /\ Len(events["r2"]) = 2

\* ----------------------------------------------------------------- C17

\* C17: no step of the pipeline, all-categories retrieval included, changes
\* the loaded index stores or a passage they hold.
C17_StoresUnchanged == [][vectorstores' = vectorstores]_vars

\* ----------------------------------------------------------------- C18

\* the index of r's classified category is not loaded, the general one is
FallsBack(r) ==
    /\ category[r] # "none"
    /\ category[r] \notin DOMAIN vectorstores
    /\ "general" \in DOMAIN vectorstores

\* C18: under the fallback the chain is built without an error, retrieval is
\* issued against the general index and against no other, and when retrieval
\* and generation return the stream finishes as a successful one: content
\* events for the tokens of the answer, done last, no error event.
C18_FallbackToGeneral ==
    \A r \in Requests :
        (FallsBack(r) /\ Queried(r)) =>
            /\ CallsOf(r, "create_rag_chain")[1].outcome = "returned"
            /\ Len(CallsOf(r, "retrieve")) = 1
            /\ CallsOf(r, "retrieve")[1].value = "general"
            /\ Succeeded(r) =>
                   /\ Count(r, "error") = 0
                   /\ IsPrefix(events[r], AloneStream(r))
                   /\ pc[r] = "finished" =>
                          /\ SuccessShape(Types(r), IF words[r] = <<>> THEN 0 ELSE 1)
                          /\ events[r][Len(events[r])] = DoneEvent

\* a politics question answered from the general index while the politics
\* index is missing: content, sources of general, done
C18_Witness ==
    \E r \in Requests :
        /\ FallsBack(r)
        /\ category[r] = "politics"
        /\ pc[r] = "finished"
        /\ Count(r, "content") >= 2
        /\ Count(r, "sources") = 1
        /\ Count(r, "error") = 0
        /\ events[r][Len(events[r])] = DoneEvent
        /\ CallsOf(r, "retrieve")[1].value = "general"

\* ----------------------------------------------------------------- C19

\* C19: a request invokes the generation service at most once; exactly once
\* when its retrieval returned and not at all otherwise; and an invocation
\* that raised is the last stage the request runs.
C19_GenerationOnce ==
    \A r \in Requests :
        /\ Len(CallsOf(r, "generate")) <= 1
        /\ Queried(r) =>
               Len(CallsOf(r, "generate")) =
                   IF \E j \in 1..Len(calls[r]) :
                          calls[r][j].op = "retrieve" /\ calls[r][j].outcome = "returned"
                   THEN 1 ELSE 0
        /\ \A j \in 1..Len(calls[r]) :
               (calls[r][j].op = "generate" /\ calls[r][j].outcome = "raised") =>
                   j = Len(calls[r])

\* a finished request whose single generation call raised after a
\* successful retrieval
C19_Witness ==
    \E r \in Requests :
        /\ pc[r] = "finished"
        /\ Len(CallsOf(r, "retrieve")) = 1
        /\ CallsOf(r, "retrieve")[1].outcome = "returned"
        /\ Len(CallsOf(r, "generate")) = 1
        /\ CallsOf(r, "generate")[1].outcome = "raised"
        /\ Types(r) = <<"metadata", "error">>

\* ----------------------------------------------------------------- C20

\* C20: the entries of the sources event are, position by position, the
\* formatted passages of the result of the request's one query, none beyond
\* the first max_sources of them, and the request ran one retrieval only.
C20_SourcesFromQueryResult ==
    \A r \in Requests :
        \A i \in 1..Len(events[r]) :
            events[r][i].type = "sources" =>
                LET entries == events[r][i].data.sources
                    docs == result[r].source_documents
                IN  /\ Len(CallsOf(r, "retrieve")) = 1
                    /\ Len(entries) <= Len(docs)
                    /\ \A j \in 1..Len(entries) :
                           /\ entries[j] = format_source_document(docs[j])
                           /\ ~req[r].max_sources.none => j <= req[r].max_sources.n

\* ----------------------------------------------------------------- C21

\* ceil(n / d)
CeilDiv(n, d) == (n + d - 1) \div d

Min(a, b) == IF a <= b THEN a ELSE b

\* tokens joined by single spaces, then one trailing space
SpacedOut(tokens) ==
    IF tokens = <<>> THEN <<" ">>
    ELSE Concat([j \in 1..Len(tokens) |-> tokens[j] \o <<" ">>])

\* C21: for an answer of n tokens the m-th content event holds tokens
\* 3(m-1)+1 .. min(3m, n) joined by single spaces plus a trailing space, so
\* exactly 3 tokens except in the last, which holds 1 to 3; no more than
\* ceil(n/3) events are ever emitted, and exactly that many once the loop is
\* over.
C21_ChunksOfThree ==
    \A r \in Requests :
        Succeeded(r) =>
            LET tokens == Split(result[r].result)
                n == Len(tokens)
                texts == ContentTexts(r)
            IN  /\ Len(texts) <= CeilDiv(n, 3)
                /\ pc[r] \in {"yield_sources", "yield_done", "finished"} =>
                       Len(texts) = CeilDiv(n, 3)
                /\ \A m \in 1..Len(texts) :
                       /\ texts[m] = SpacedOut(SubSeq(tokens, 3 * (m - 1) + 1, Min(3 * m, n)))
                       /\ Len(Split(texts[m])) = IF m < CeilDiv(n, 3) THEN 3 ELSE n - 3 * (m - 1)
                       /\ Len(Split(texts[m])) \in 1..3

\* an answer of seven tokens sent as three content events of 3, 3 and 1
\* tokens
C21_Witness ==
    \E r \in Requests :
        /\ pc[r] = "finished" /\ Succeeded(r)
        /\ Len(Split(result[r].result)) = 7
        /\ Len(ContentTexts(r)) = 3
        /\ Len(Split(ContentTexts(r)[3])) = 1

\* ----------------------------------------------------------------- C22

\* the first n elements of a sequence, all of it when it is shorter
FirstN(seq, n) == SubSeq(seq, 1, Min(n, Len(seq)))

\* the passages the index of a similarity query contributed: its k nearest
\* when the query returned, none when it raised
Contribution(q) ==
    IF q.outcome = "returned" THEN FirstN(vectorstores[q.store], q.k) ELSE <<>>

\* C22: a search issues one similarity query per loaded index, in iteration
\* order, all with the same question and k; every result is tagged with the
\* index that holds it; the results are the first 3k of the per-index
\* results joined in iteration order, and never more than 3k.
C22_SearchAllCategories ==
    \A r \in Requests :
        response[r].kind = "search" =>
            LET res == response[r].results
                qs == response[r].queries
            IN  /\ [n \in 1..Len(qs) |-> qs[n].store] =
                       SelectSeq(CATEGORIES, LAMBDA c : c \in DOMAIN vectorstores)
                /\ \A n \in 1..Len(qs) :
                       qs[n].question = qs[1].question /\ qs[n].k = qs[1].k
                /\ Len(res) <= 3 * qs[1].k
                /\ \A i \in 1..Len(res) :
                       \E j \in 1..Len(vectorstores[res[i].metadata.retrieved_from]) :
                           vectorstores[res[i].metadata.retrieved_from][j].id = res[i].id
                /\ res = FirstN(Concat([n \in 1..Len(qs) |-> Contribution(qs[n])]),
                                3 * qs[1].k)

\* a search of all five indexes with k = 2 and no failure: seven passages
\* found, the first six returned, the last of them from general
C22_Witness ==
    \E r \in Requests :
        /\ response[r].kind = "search"
        /\ Len(response[r].queries) = 5
        /\ \A n \in 1..5 : response[r].queries[n].outcome = "returned"
        /\ response[r].queries[1].k = 2
        /\ Len(response[r].results) = 6
        /\ response[r].results[1].metadata.retrieved_from = "history"
        /\ response[r].results[6].id = "g1"
        /\ response[r].results[6].metadata.retrieved_from = "general"

\* ----------------------------------------------------------------- C23

\* the number of passages contributed by the queries before the n-th
Before(qs, n) ==
    Len(Concat([m \in 1..(n - 1) |-> Contribution(qs[m])]))

\* C23: whichever indexes fail, every loaded index is still queried; a
\* failed index has no passage among the results; and each passage of an
\* index that answered stands in the results at its place after the
\* passages of the answering indexes before it, up to the cap of 3k.
C23_FailureSwallowed ==
    \A r \in Requests :
        response[r].kind = "search" =>
            LET res == response[r].results
                qs == response[r].queries
            IN  /\ Len(qs) = Cardinality(DOMAIN vectorstores)
                /\ \A n \in 1..Len(qs) :
                       IF qs[n].outcome = "raised"
                       THEN \A i \in 1..Len(res) :
                                res[i].metadata.retrieved_from # qs[n].store
                       ELSE \A j \in 1..Len(Contribution(qs[n])) :
                                Before(qs, n) + j <= 3 * qs[n].k =>
                                    /\ Before(qs, n) + j <= Len(res)
                                    /\ res[Before(qs, n) + j] = vectorstores[qs[n].store][j]

\* the first and the third of four loaded indexes failed; the passages of
\* the second and of the fourth are returned
C23_Witness ==
    \E r \in Requests :
        /\ response[r].kind = "search"
        /\ [n \in 1..Len(response[r].queries) |->
               <<response[r].queries[n].store, response[r].queries[n].outcome>>] =
              << <<"history", "raised">>, <<"culture", "returned">>,
                 <<"economy", "raised">>, <<"general", "returned">> >>
        /\ [i \in 1..Len(response[r].results) |-> response[r].results[i].id] =
              <<"c1", "g1", "g2">>

\* ----------------------------------------------------------------- C24

\* C24: a line that is blank never reaches ai.query and the loop prompts
\* again; an exit word, in any case and with blanks around it, never reaches
\* ai.query and is the last line read; the loop has ended only if the last
\* line read was an exit word, so neither an exception of ai.query nor
\* anything else ends it.
C24_LoopEndsOnlyOnExit ==
    /\ \A n \in 1..Len(cli.log) :
           LET it == cli.log[n]
           IN  /\ IsBlank(it.line) => (it.outcome = "empty" /\ it.asked = <<>>)
               /\ Lower(Strip(it.line)) \in ExitWords =>
                      (it.outcome = "exit" /\ it.asked = <<>>)
               /\ it.outcome = "exit" => n = Len(cli.log)
               /\ n < Len(cli.log) => it.outcome \in {"empty", "answered", "error"}
    /\ cli.at # "prompt" =>
           /\ cli.log # <<>>
           /\ cli.log[Len(cli.log)].outcome = "exit"

====
